---- MODULE Spec2Model ----
(***************************************************************************)
(* Model of the partial-complex-entity algebra of espr                    *)
(* (espr/src/ir/complex_entity.rs, ISO-10303-11 Annex B).                  *)
(*                                                                         *)
(* A PartialComplexEntity is the record [indices |-> <<...>>]; an          *)
(* Instantiables is the record [parts |-> <<pce, ...>>].  Every operator   *)
(* is computed the way the Rust code computes it (dedup removes            *)
(* consecutive duplicates only, sorted() is a stable sort by Ord::cmp).    *)
(***************************************************************************)
EXTENDS Integers, Sequences, FiniteSets, TLC

\* ------------------------------------------------------------------------
\* Bounds of the model
\* ------------------------------------------------------------------------
\* largest namespace index passed to PartialComplexEntity::new
MaxIdx == 3
\* longest index slice passed to PartialComplexEntity::new
MaxLen == 2
\* largest namespace index inside a PCE that is a part of an Instantiables
MaxPartIdx == 2
\* size of the Instantiables operands of one run: their parts and the
\* indices of their parts, counted together
MaxOperandSize == 6
\* number of paths declared in the namespace
NumDeclared == 2
\* number of nodes of a constraint expression handed to the lowering
MaxExprNodes == 4
\* number of (ScopeType, name) items in the scopes of a run, all together
MaxScopeSize == 4
\* number of characters of the input of the parser
MaxInputLen == 3

VARIABLES
    op,       \* name of the last operation that acted
    npce,     \* number of PCEs constructed so far
    input,    \* the slice handed to the last PartialComplexEntity::new
    x, y, z,  \* the first, second and third PCE constructed
    pres,     \* PCE returned by the last new or `&`
    ord,      \* Ordering returned by the last cmp on x and y
    ninst,    \* number of Instantiables constructed so far
    A, B, C,  \* the first, second and third Instantiables constructed
    ires,     \* Instantiables returned by the last Instantiables operation
    outcome,  \* "none", "ok", "err" or "panic": how the last operation ended
    expr,     \* the ConstraintExpr to lower, <<e>>, or <<>> when there is none
    diag,     \* the paths reported as errors by the last lowering
    nscope,   \* number of scopes constructed so far (s1, then s2, then s3)
    s1, s2, s3,  \* the scopes: sequences of [ty, name]
    sres,     \* scope returned by the last pushed or popped: <<s>>, or <<>> for None
    cmpres,   \* "none", or what partial_cmp returned: "None", "Less", "Equal", "Greater"
    text,     \* the input of the parser, <<input>>, or <<>> when there is none
    parsed    \* what simple_id returned: [ok, id, residual]

pceVars == <<npce, input, x, y, z, pres, ord>>
instVars == <<ninst, A, B, C, ires, outcome>>
lowerVars == <<expr, diag>>
scopeVars == <<nscope, s1, s2, s3, sres, cmpres>>
parserVars == <<text, parsed>>
vars == <<op, npce, input, x, y, z, pres, ord, ninst, A, B, C, ires, outcome,
          expr, diag, nscope, s1, s2, s3, sres, cmpres, text, parsed>>

\* ------------------------------------------------------------------------
\* Helpers on sequences
\* ------------------------------------------------------------------------
Range(s) == {s[i] : i \in 1..Len(s)}

\* all sequences over S of length at most n
SeqsUpTo(S, n) == UNION {[1..k -> S] : k \in 0..n}

\* itertools::Itertools::dedup : drops an element equal to its predecessor
RECURSIVE Dedup(_)
Dedup(s) ==
    IF Len(s) <= 1 THEN s
    ELSE IF s[1] = s[2] THEN Dedup(Tail(s))
    ELSE <<s[1]>> \o Dedup(Tail(s))

\* insertion of one usize into an ascending slice
RECURSIVE InsertNat(_, _)
InsertNat(e, s) ==
    IF s = <<>> THEN <<e>>
    ELSE IF e <= s[1] THEN <<e>> \o s
    ELSE <<s[1]>> \o InsertNat(e, Tail(s))

\* <[usize]>::sort_unstable : ascending order
RECURSIVE SortUnstable(_)
SortUnstable(s) ==
    IF s = <<>> THEN <<>>
    ELSE InsertNat(s[1], SortUnstable(Tail(s)))

\* Ord::cmp on usize
CmpNat(m, n) == IF m < n THEN "Less" ELSE IF m > n THEN "Greater" ELSE "Equal"

\* Ord::cmp on Vec<usize> : lexicographic, a proper prefix is Less
RECURSIVE VecCmp(_, _)
VecCmp(s, t) ==
    IF s = <<>> /\ t = <<>> THEN "Equal"
    ELSE IF s = <<>> THEN "Less"
    ELSE IF t = <<>> THEN "Greater"
    ELSE IF s[1] # t[1] THEN CmpNat(s[1], t[1])
    ELSE VecCmp(Tail(s), Tail(t))

\* ------------------------------------------------------------------------
\* PartialComplexEntity
\* ------------------------------------------------------------------------
\* PartialComplexEntity::new
PceNew(indices) == [indices |-> Dedup(indices)]

\* impl Ord for PartialComplexEntity : length first, then content
PceCmp_ContentOnly(p, q) == VecCmp(p.indices, q.indices)
PceCmp(p, q) ==
    LET l == CmpNat(Len(p.indices), Len(q.indices))
    IN  IF l = "Equal" THEN VecCmp(p.indices, q.indices) ELSE l

\* impl BitAnd for PartialComplexEntity : append, sort_unstable, dedup
PceBitAnd_NoSort(p, q) == [indices |-> Dedup(p.indices \o q.indices)]
PceBitAnd(p, q) == [indices |-> Dedup(SortUnstable(p.indices \o q.indices))]

\* ------------------------------------------------------------------------
\* Instantiables
\* ------------------------------------------------------------------------
\* insertion of one PCE into a slice ascending by Ord::cmp; an element goes
\* in front of the elements it does not exceed, so the sort is stable
RECURSIVE InsertPce(_, _)
InsertPce(e, s) ==
    IF s = <<>> THEN <<e>>
    ELSE IF PceCmp(e, s[1]) # "Greater" THEN <<e>> \o s
    ELSE <<s[1]>> \o InsertPce(e, Tail(s))

\* itertools::Itertools::sorted on PartialComplexEntity
RECURSIVE Sorted(_)
Sorted(s) ==
    IF s = <<>> THEN <<>>
    ELSE InsertPce(s[1], Sorted(Tail(s)))

\* Instantiables::default
InstDefault == [parts |-> <<>>]

\* Instantiables::new : the slice is copied as it is
InstNew(pces) == [parts |-> pces]

\* Instantiables::single
InstSingle(index) == [parts |-> <<PceNew(<<index>>)>>]

\* impl FromIterator<&PartialComplexEntity> for Instantiables : cloned,
\* sorted, dedup
InstFromIter_DedupFirst(pces) == [parts |-> Sorted(Dedup(pces))]
InstFromIter(pces) == [parts |-> Dedup(Sorted(pces))]

\* impl Add for Instantiables : append, sorted, dedup
InstAdd_NoSort(a, b) == [parts |-> Dedup(a.parts \o b.parts)]
InstAdd(a, b) == [parts |-> Dedup(Sorted(a.parts \o b.parts))]

\* the nested loops of impl BitAnd for Instantiables: p & q for every p of
\* the left operand (outer loop) and every q of the right one (inner loop)
RECURSIVE Pairwise(_, _)
Pairwise(ps, qs) ==
    IF ps = <<>> THEN <<>>
    ELSE [j \in 1..Len(qs) |-> PceBitAnd(ps[1], qs[j])] \o Pairwise(Tail(ps), qs)

\* impl BitAnd for Instantiables
InstBitAnd_EmptyIsIdentity(a, b) ==
    IF a.parts = <<>> THEN b
    ELSE IF b.parts = <<>> THEN a
    ELSE [parts |-> Dedup(Sorted(Pairwise(a.parts, b.parts)))]
InstBitAnd_NoSort(a, b) == [parts |-> Dedup(Pairwise(a.parts, b.parts))]
InstBitAnd(a, b) == [parts |-> Dedup(Sorted(Pairwise(a.parts, b.parts)))]

\* impl Add<PartialComplexEntity> for Instantiables : push, sorted, dedup
InstAddPce_NoSort(a, q) == [parts |-> Dedup(Append(a.parts, q))]
InstAddPce(a, q) == [parts |-> Dedup(Sorted(Append(a.parts, q)))]

\* impl Add<Instantiables> for PartialComplexEntity : rhs + self
PceAddInst(q, a) == InstAddPce(a, q)

\* impl BitAnd<PartialComplexEntity> for Instantiables : p & q for every
\* part p, sorted, dedup
InstBitAndPce(a, q) ==
    [parts |-> Dedup(Sorted([i \in 1..Len(a.parts) |-> PceBitAnd(a.parts[i], q)]))]

\* impl BitAnd<Instantiables> for PartialComplexEntity : rhs & self
PceBitAndInst(q, a) == InstBitAndPce(a, q)

\* impl Sub for Instantiables : keep the parts equal to no part of rhs
InstSub_Sorted(a, b) ==
    [parts |-> Dedup(Sorted(
        SelectSeq(a.parts, LAMBDA p : \A q \in Range(b.parts) : p # q)))]
InstSub(a, b) ==
    [parts |-> SelectSeq(a.parts, LAMBDA p : \A q \in Range(b.parts) : p # q)]

IsAscending(s) == \A i \in 1..(Len(s) - 1) : s[i] <= s[i + 1]

\* <[usize]>::binary_search(j).is_ok().  On an ascending slice it is
\* membership.  On a slice that is not ascending the result is unspecified:
\* an absent value is never found, a present one is found or missed; hits
\* is the set of <<slice, value>> pairs the search of this build finds.
BinarySearchOk(s, j, hits) ==
    IF IsAscending(s) THEN j \in Range(s) ELSE <<s, j>> \in hits

\* the searches whose result is unspecified when a is divided
UnspecifiedSearches(a) ==
    UNION {{<<p.indices, j>> : j \in Range(p.indices)} :
           p \in {r \in Range(a.parts) : ~IsAscending(r.indices)}}

\* impl Div for Instantiables : keep the parts that cover some part of rhs
InstDiv(a, b, hits) ==
    [parts |-> SelectSeq(a.parts, LAMBDA p :
        \E q \in Range(b.parts) :
            \A j \in Range(q.indices) : BinarySearchOk(p.indices, j, hits))]

\* impl Sub<PartialComplexEntity> for Instantiables : keep the parts that
\* differ from q
InstSubPce(a, q) == [parts |-> SelectSeq(a.parts, LAMBDA p : p # q)]

\* impl Div<PartialComplexEntity> for Instantiables : keep the parts in which
\* the search finds every index of rhs
InstDivPce_AnyIndex(a, rhs, hits) ==
    [parts |-> SelectSeq(a.parts, LAMBDA part :
        \/ rhs.indices = <<>>
        \/ \E i \in Range(rhs.indices) : BinarySearchOk(part.indices, i, hits))]
InstDivPce(a, rhs, hits) ==
    [parts |-> SelectSeq(a.parts, LAMBDA part :
        \A i \in Range(rhs.indices) : BinarySearchOk(part.indices, i, hits))]

\* Instantiables::oneof : is = is + p for every p, from default
RECURSIVE OneOfFrom(_, _)
OneOfFrom(is, parts) ==
    IF parts = <<>> THEN is
    ELSE OneOfFrom(InstAdd(is, parts[1]), Tail(parts))

OneOf_FromFirst(parts) ==
    IF parts = <<>> THEN InstDefault ELSE OneOfFrom(parts[1], Tail(parts))
OneOf(parts) == OneOfFrom(InstDefault, parts)

\* the loop of Instantiables::and ; constrait is an Option, <<>> is None
RECURSIVE AndFrom(_, _)
AndFrom(constrait, terms) ==
    IF terms = <<>> THEN constrait
    ELSE AndFrom(IF constrait # <<>> THEN <<InstBitAnd(constrait[1], terms[1])>>
                 ELSE <<terms[1]>>, Tail(terms))

\* assert!(terms.len() >= 2) of Instantiables::and
AndAccepts_NonEmpty(terms) == Len(terms) >= 1
AndAccepts(terms) == Len(terms) >= 2

\* Instantiables::and, for terms that pass assert!(terms.len() >= 2)
And_LastOnly(terms) == terms[Len(terms)]
And(terms) == AndFrom(<<>>, terms)[1]

\* the inner loop of Instantiables::andor from factor k on: the factors whose
\* bit of i is set are combined by &
RECURSIVE AndOrTerm(_, _, _, _)
AndOrTerm(factors, k, i, c) ==
    IF k > Len(factors) THEN c
    ELSE AndOrTerm(factors, k + 1, i \div 2,
                   IF i % 2 = 1
                   THEN (IF c # <<>> THEN <<InstBitAnd(c[1], factors[k])>>
                         ELSE <<factors[k]>>)
                   ELSE c)

\* the outer loop of Instantiables::andor from i on, up to 2^n - 1
RECURSIVE AndOrFrom(_, _, _)
AndOrFrom(factors, i, constrait) ==
    IF i >= 2 ^ Len(factors) THEN constrait
    ELSE AndOrFrom(factors, i + 1,
                   InstAdd(constrait, AndOrTerm(factors, 1, i, <<>>)[1]))

\* assert!(!factors.is_empty()) of Instantiables::andor
AndOrAccepts(factors) == factors # <<>>

\* Instantiables::andor, for factors that pass assert!(!factors.is_empty())
AndOr_FromTwo(factors) == AndOrFrom(factors, 2, InstDefault)
AndOr(factors) == AndOrFrom(factors, 1, InstDefault)

\* ------------------------------------------------------------------------
\* Lowering of constraint expressions
\* ------------------------------------------------------------------------
\* ConstraintExpr::Reference(path)
Reference(path) == [tag |-> "Reference", path |-> path, exprs |-> <<>>]

\* ConstraintExpr::OneOf(exprs), ::And(exprs), ::AndOr(exprs)
Composite(tag, exprs) == [tag |-> tag, path |-> 0, exprs |-> exprs]

\* the paths of the schema: 1..NumDeclared are declared, the last two are not
Paths == 1..(NumDeclared + 2)

\* the namespace: the declared paths in the order of their insertion (the
\* highest path first); the index of a path is its position, from 0
Namespace == [i \in 1..NumDeclared |-> NumDeclared + 1 - i]

\* Namespace::get : the index of the path, or an error for an unknown path
NsGet(ns, path) ==
    IF \E i \in 1..Len(ns) : ns[i] = path
    THEN [ok |-> TRUE, index |-> (CHOOSE i \in 1..Len(ns) : ns[i] = path) - 1]
    ELSE [ok |-> FALSE, index |-> 0]

\* results of from_constraint_expr: Ok(val), Err(error on a path), a panic
LowerOk(val) == [kind |-> "ok", val |-> val, errs |-> <<>>]
LowerErr(errs) == [kind |-> "err", val |-> InstDefault, errs |-> errs]
LowerPanic == [kind |-> "panic", val |-> InstDefault, errs |-> <<>>]

\* the arm Reference(path) of from_constraint_expr
LowerReference(ns, path) ==
    LET got == NsGet(ns, path)
    IN  IF got.ok THEN LowerOk(InstSingle(got.index)) ELSE LowerErr(<<path>>)

\* the combinator an arm applies to its lowered children: Self::oneof,
\* Self::and, Self::andor
Combine_AndAsAndOr(tag, vals) ==
    IF tag = "OneOf" THEN LowerOk(OneOf(vals))
    ELSE IF AndOrAccepts(vals) THEN LowerOk(AndOr(vals)) ELSE LowerPanic
Combine(tag, vals) ==
    IF tag = "OneOf" THEN LowerOk(OneOf(vals))
    ELSE IF tag = "And"
    THEN (IF AndAccepts(vals) THEN LowerOk(And(vals)) ELSE LowerPanic)
    ELSE (IF AndOrAccepts(vals) THEN LowerOk(AndOr(vals)) ELSE LowerPanic)

RECURSIVE FromConstraintExpr(_, _)
RECURSIVE LowerChildren(_, _)

\* exprs.iter().map(|e| Self::from_constraint_expr(ns, e))
\*      .collect::<Result<Vec<Self>, SemanticError>>()
\* the children are lowered from the left and the first one that does not
\* return Ok ends the iteration; val holds the Vec as the parts of the
\* children in a sequence
LowerChildren(ns, exprs) ==
    IF exprs = <<>> THEN [kind |-> "ok", vals |-> <<>>, errs |-> <<>>]
    ELSE LET head == FromConstraintExpr(ns, exprs[1])
         IN  IF head.kind # "ok"
             THEN [kind |-> head.kind, vals |-> <<>>, errs |-> head.errs]
             ELSE LET rest == LowerChildren(ns, Tail(exprs))
                  IN  IF rest.kind # "ok" THEN rest
                      ELSE [kind |-> "ok", vals |-> <<head.val>> \o rest.vals,
                            errs |-> <<>>]

\* Instantiables::from_constraint_expr
FromConstraintExpr(ns, e) ==
    IF e.tag = "Reference" THEN LowerReference(ns, e.path)
    ELSE LET children == LowerChildren(ns, e.exprs)
         IN  IF children.kind = "err" THEN LowerErr(children.errs)
             ELSE IF children.kind = "panic" THEN LowerPanic
             ELSE Combine(e.tag, children.vals)

\* ------------------------------------------------------------------------
\* Scope
\* ------------------------------------------------------------------------
\* Scope::root : the empty Vec
ScopeRoot == <<>>

\* Scope::pushed : a clone of the scope with (ty, name) pushed
ScopePushed(s, ty, name) == Append(s, [ty |-> ty, name |-> name])

\* Scope::popped : None for root, else a clone without the last item
ScopePopped_RootOfRoot(s) == IF s = <<>> THEN <<ScopeRoot>> ELSE <<SubSeq(s, 1, Len(s) - 1)>>
ScopePopped(s) == IF s = <<>> THEN <<>> ELSE <<SubSeq(s, 1, Len(s) - 1)>>

\* impl PartialOrd for Scope : None when the items differ at a position both
\* scopes have, else the length of other compared with the length of self
PartialCmp_SelfFirst(self, other) ==
    IF \E i \in 1..(IF Len(self) < Len(other) THEN Len(self) ELSE Len(other)) :
           self[i] # other[i]
    THEN "None"
    ELSE CmpNat(Len(self), Len(other))
PartialCmp_LengthOnly(self, other) == CmpNat(Len(other), Len(self))
PartialCmp(self, other) ==
    IF \E i \in 1..(IF Len(self) < Len(other) THEN Len(self) ELSE Len(other)) :
           self[i] # other[i]
    THEN "None"
    ELSE CmpNat(Len(other), Len(self))

\* PartialOrd::gt, ::ge, ::le as the standard library derives them
\* from partial_cmp
ScopeGt(a, b) == PartialCmp(a, b) = "Greater"
ScopeGe(a, b) == PartialCmp(a, b) \in {"Greater", "Equal"}
ScopeLe(a, b) == PartialCmp(a, b) \in {"Less", "Equal"}

\* ------------------------------------------------------------------------
\* Parser of identifiers
\* ------------------------------------------------------------------------
\* a str is the sequence of its characters, a character a string of length 1
LowerLetters ==
    {"a", "b", "c", "d", "e", "f", "g", "h", "i", "j", "k", "l", "m",
     "n", "o", "p", "q", "r", "s", "t", "u", "v", "w", "x", "y", "z"}
Digits == {"0", "1", "2", "3", "4", "5", "6", "7", "8", "9"}

\* result of a parser of one character: Ok((rest, out)) or Err at the input
ParsedChar(out, rest) == [ok |-> TRUE, out |-> out, rest |-> rest]
NoChar(str) == [ok |-> FALSE, out |-> "", rest |-> str]

\* nom::character::complete::satisfy(cond) : takes the first character when
\* there is one and cond holds of it; cond is given by the set of the
\* characters it accepts
Satisfy(accepted, str) ==
    IF str # <<>> /\ str[1] \in accepted
    THEN ParsedChar(str[1], Tail(str))
    ELSE NoChar(str)

\* fn letter : satisfy(|c| matches!(c, 'a'..='z'))
letter(str) == Satisfy(LowerLetters, str)
\* fn digit : satisfy(|c| matches!(c, '0'..='9'))
digit(str) == Satisfy(Digits, str)
\* char('_')
underscore(str) == Satisfy({"_"}, str)

\* alt((letter, digit, char('_'))) : the first of the three that succeeds
TailChar_NoDigit(str) ==
    IF letter(str).ok THEN letter(str)
    ELSE underscore(str)
TailChar(str) ==
    IF letter(str).ok THEN letter(str)
    ELSE IF digit(str).ok THEN digit(str)
    ELSE underscore(str)

\* many0(alt(..)) : applies the parser until it fails, collects the outputs
RECURSIVE Many0TailChar(_)
Many0TailChar(str) ==
    LET r == TailChar(str)
    IN  IF ~r.ok THEN [out |-> <<>>, rest |-> str]
        ELSE LET more == Many0TailChar(r.rest)
             IN  [out |-> <<r.out>> \o more.out, rest |-> more.rest]

\* fn simple_id : tuple((letter, many0(..))) mapped to head followed by tail;
\* an error leaves the input where it was
simple_id(str) ==
    LET head == letter(str)
    IN  IF ~head.ok THEN [ok |-> FALSE, id |-> <<>>, residual |-> str]
        ELSE LET tail == Many0TailChar(head.rest)
             IN  [ok |-> TRUE, id |-> <<head.out>> \o tail.out,
                  residual |-> tail.rest]

\* ------------------------------------------------------------------------
\* State machine: a run constructs up to three operands, the way the doc
\* tests do (let a = ..; let b = ..; let c = ..), and applies operations
\* to them
\* ------------------------------------------------------------------------
\* the slices a caller hands to PartialComplexEntity::new
Inputs == SeqsUpTo(1..MaxIdx, MaxLen)

\* size of a list of PCEs: its parts and their indices
RECURSIVE Size(_)
Size(ps) ==
    IF ps = <<>> THEN 0
    ELSE 1 + Len(ps[1].indices) + Size(Tail(ps))

\* the PCEs of size at most k a caller builds with PartialComplexEntity::new
PartPCEs(k) == {PceNew(s) : s \in SeqsUpTo(1..MaxPartIdx, k - 1)}

\* the lists of such PCEs of size at most k
RECURSIVE PartLists(_)
PartLists(k) ==
    {<<>>} \cup
    UNION {{<<p>> \o l : l \in PartLists(k - 1 - Len(p.indices))} :
           p \in PartPCEs(k)}

\* nothing has been constructed yet
Init ==
    /\ op = "init"
    /\ npce = 0
    /\ input = <<>>
    /\ x = PceNew(<<>>) /\ y = PceNew(<<>>) /\ z = PceNew(<<>>)
    /\ pres = PceNew(<<>>)
    /\ ord = "none"
    /\ ninst = 0
    /\ A = InstDefault /\ B = InstDefault /\ C = InstDefault
    /\ ires = InstDefault
    /\ outcome = "none"
    /\ expr = <<>>
    /\ diag = <<>>
    /\ nscope = 0
    /\ s1 = ScopeRoot /\ s2 = ScopeRoot /\ s3 = ScopeRoot
    /\ sres = <<>>
    /\ cmpres = "none"
    /\ text = <<>>
    /\ parsed = [ok |-> FALSE, id |-> <<>>, residual |-> <<>>]

\* a run constructs its PCEs before it operates on them: no operation
\* changes x, y or z, so every state is reached this way
ConstructingPce == op \in {"init", "pce_new"}

\* let x = PartialComplexEntity::new(indices), then y, then z
NewPce ==
  /\ ConstructingPce
  /\ \E indices \in Inputs :
        /\ npce < 3
        /\ op' = "pce_new"
        /\ npce' = npce + 1
        /\ input' = indices
        /\ x' = IF npce = 0 THEN PceNew(indices) ELSE x
        /\ y' = IF npce = 1 THEN PceNew(indices) ELSE y
        /\ z' = IF npce = 2 THEN PceNew(indices) ELSE z
        /\ pres' = PceNew(indices)
        /\ ord' = "none"
        /\ UNCHANGED instVars
        /\ UNCHANGED scopeVars
        /\ UNCHANGED parserVars
        /\ UNCHANGED lowerVars

\* x & y
BitAndPce ==
    /\ npce >= 2
    /\ op' = "pce_bitand"
    /\ pres' = PceBitAnd(x, y)
    /\ UNCHANGED <<npce, input, x, y, z, ord>>
    /\ UNCHANGED instVars
    /\ UNCHANGED scopeVars
    /\ UNCHANGED parserVars
    /\ UNCHANGED lowerVars

\* x.cmp(&y)
CmpPce ==
    /\ npce >= 2
    /\ op' = "pce_cmp"
    /\ ord' = PceCmp(x, y)
    /\ UNCHANGED <<npce, input, x, y, z, pres>>
    /\ UNCHANGED instVars
    /\ UNCHANGED scopeVars
    /\ UNCHANGED parserVars
    /\ UNCHANGED lowerVars

NextPCE == NewPce \/ BitAndPce \/ CmpPce

SpecPCE == Init /\ [][NextPCE]_vars

\* an operation that returned the Instantiables r
Returned(name, r) ==
    /\ op' = name
    /\ ires' = r
    /\ outcome' = "ok"

\* an operation that ended in a failed assert!
Panicked(name) ==
    /\ op' = name
    /\ ires' = ires
    /\ outcome' = "panic"

\* the constructed value v becomes the next operand
Constructed(v) ==
    /\ ninst < 3
    /\ ninst' = ninst + 1
    /\ A' = IF ninst = 0 THEN v ELSE A
    /\ B' = IF ninst = 1 THEN v ELSE B
    /\ C' = IF ninst = 2 THEN v ELSE C

\* what the operands of this run may still grow by
Room == MaxOperandSize - Size(A.parts) - Size(B.parts) - Size(C.parts)

\* a run constructs its operands before it operates on them: no operation
\* changes A, B or C, so every state is reached this way
ConstructingInst == op \in {"init", "inst_new", "inst_single"}

\* let A = Instantiables::new(pces), then B, then C
NewInst ==
  /\ ConstructingInst
  /\ \E pces \in PartLists(Room) :
        /\ Constructed(InstNew(pces))
        /\ Returned("inst_new", InstNew(pces))
        /\ UNCHANGED pceVars
        /\ UNCHANGED scopeVars
        /\ UNCHANGED parserVars
        /\ UNCHANGED lowerVars

\* let A = Instantiables::single(index), then B, then C
SingleInst ==
  /\ ConstructingInst
  /\ \E index \in 1..MaxPartIdx :
        /\ Room >= 2
        /\ Constructed(InstSingle(index))
        /\ Returned("inst_single", InstSingle(index))
        /\ UNCHANGED pceVars
        /\ UNCHANGED scopeVars
        /\ UNCHANGED parserVars
        /\ UNCHANGED lowerVars

\* A + B
AddInst ==
    /\ ninst >= 2
    /\ Returned("inst_add", InstAdd(A, B))
    /\ UNCHANGED <<ninst, A, B, C>>
    /\ UNCHANGED pceVars
    /\ UNCHANGED scopeVars
    /\ UNCHANGED parserVars
    /\ UNCHANGED lowerVars

\* A & B
BitAndInst ==
    /\ ninst >= 2
    /\ Returned("inst_bitand", InstBitAnd(A, B))
    /\ UNCHANGED <<ninst, A, B, C>>
    /\ UNCHANGED pceVars
    /\ UNCHANGED scopeVars
    /\ UNCHANGED parserVars
    /\ UNCHANGED lowerVars

\* A.parts.iter().collect::<Instantiables>()
FromIterInst ==
    /\ ninst >= 1
    /\ Returned("from_iter", InstFromIter(A.parts))
    /\ UNCHANGED <<ninst, A, B, C>>
    /\ UNCHANGED pceVars
    /\ UNCHANGED scopeVars
    /\ UNCHANGED parserVars
    /\ UNCHANGED lowerVars

\* A - B
SubInst ==
    /\ ninst >= 2
    /\ Returned("inst_sub", InstSub(A, B))
    /\ UNCHANGED <<ninst, A, B, C>>
    /\ UNCHANGED pceVars
    /\ UNCHANGED scopeVars
    /\ UNCHANGED parserVars
    /\ UNCHANGED lowerVars

\* A / B
DivInst ==
    \E hits \in SUBSET UnspecifiedSearches(A) :
        /\ ninst >= 2
        /\ Returned("inst_div", InstDiv(A, B, hits))
        /\ UNCHANGED <<ninst, A, B, C>>
        /\ UNCHANGED pceVars
        /\ UNCHANGED scopeVars
        /\ UNCHANGED parserVars
        /\ UNCHANGED lowerVars

\* the operands constructed so far, as the Vec handed to oneof / and / andor
Operands == SubSeq(<<A, B, C>>, 1, ninst)

\* Instantiables::oneof(vec![A, ..])
OneOfInst ==
    /\ Returned("oneof", OneOf(Operands))
    /\ UNCHANGED <<ninst, A, B, C>>
    /\ UNCHANGED pceVars
    /\ UNCHANGED scopeVars
    /\ UNCHANGED parserVars
    /\ UNCHANGED lowerVars

\* Instantiables::and(vec![A, ..])
AndInst ==
    /\ IF AndAccepts(Operands)
       THEN Returned("and", And(Operands))
       ELSE Panicked("and")
    /\ UNCHANGED <<ninst, A, B, C>>
    /\ UNCHANGED pceVars
    /\ UNCHANGED scopeVars
    /\ UNCHANGED parserVars
    /\ UNCHANGED lowerVars

\* Instantiables::andor(vec![A, ..])
AndOrInst ==
    /\ IF AndOrAccepts(Operands)
       THEN Returned("andor", AndOr(Operands))
       ELSE Panicked("andor")
    /\ UNCHANGED <<ninst, A, B, C>>
    /\ UNCHANGED pceVars
    /\ UNCHANGED scopeVars
    /\ UNCHANGED parserVars
    /\ UNCHANGED lowerVars

NextInst ==
    \/ NewInst \/ SingleInst \/ FromIterInst
    \/ AddInst \/ BitAndInst \/ SubInst \/ DivInst
    \/ OneOfInst \/ AndInst \/ AndOrInst

SpecInst == Init /\ [][NextInst]_vars

\* ------------------------------------------------------------------------
\* State machine: a run constructs an Instantiables A and a
\* PartialComplexEntity x and applies the operators that take one of each
\* ------------------------------------------------------------------------
\* let A = Instantiables::new(pces)
NewInstOperand ==
    /\ ninst = 0
    /\ NewInst

\* let x = PartialComplexEntity::new(indices)
NewPceOperand ==
    /\ ninst = 1 /\ npce = 0
    /\ \E indices \in SeqsUpTo(1..MaxPartIdx, Room - 1) :
           /\ op' = "pce_new"
           /\ npce' = 1
           /\ input' = indices
           /\ x' = PceNew(indices)
           /\ pres' = PceNew(indices)
    /\ UNCHANGED <<y, z, ord>>
    /\ UNCHANGED instVars
    /\ UNCHANGED scopeVars
    /\ UNCHANGED parserVars
    /\ UNCHANGED lowerVars

\* A + x
AddInstPce ==
    /\ ninst = 1 /\ npce = 1
    /\ Returned("inst_add_pce", InstAddPce(A, x))
    /\ UNCHANGED <<ninst, A, B, C>>
    /\ UNCHANGED pceVars
    /\ UNCHANGED scopeVars
    /\ UNCHANGED parserVars
    /\ UNCHANGED lowerVars

\* x + A
AddPceInst ==
    /\ ninst = 1 /\ npce = 1
    /\ Returned("pce_add_inst", PceAddInst(x, A))
    /\ UNCHANGED <<ninst, A, B, C>>
    /\ UNCHANGED pceVars
    /\ UNCHANGED scopeVars
    /\ UNCHANGED parserVars
    /\ UNCHANGED lowerVars

\* A & x
BitAndInstPce ==
    /\ ninst = 1 /\ npce = 1
    /\ Returned("inst_bitand_pce", InstBitAndPce(A, x))
    /\ UNCHANGED <<ninst, A, B, C>>
    /\ UNCHANGED pceVars
    /\ UNCHANGED scopeVars
    /\ UNCHANGED parserVars
    /\ UNCHANGED lowerVars

\* x & A
BitAndPceInst ==
    /\ ninst = 1 /\ npce = 1
    /\ Returned("pce_bitand_inst", PceBitAndInst(x, A))
    /\ UNCHANGED <<ninst, A, B, C>>
    /\ UNCHANGED pceVars
    /\ UNCHANGED scopeVars
    /\ UNCHANGED parserVars
    /\ UNCHANGED lowerVars

\* A - x
SubInstPce ==
    /\ ninst = 1 /\ npce = 1
    /\ Returned("inst_sub_pce", InstSubPce(A, x))
    /\ UNCHANGED <<ninst, A, B, C>>
    /\ UNCHANGED pceVars
    /\ UNCHANGED scopeVars
    /\ UNCHANGED parserVars
    /\ UNCHANGED lowerVars

\* A / x
DivInstPce ==
    /\ ninst = 1 /\ npce = 1
    /\ \E hits \in SUBSET UnspecifiedSearches(A) :
           Returned("inst_div_pce", InstDivPce(A, x, hits))
    /\ UNCHANGED <<ninst, A, B, C>>
    /\ UNCHANGED pceVars
    /\ UNCHANGED scopeVars
    /\ UNCHANGED parserVars
    /\ UNCHANGED lowerVars

NextMixed ==
    \/ NewInstOperand \/ NewPceOperand
    \/ AddInstPce \/ AddPceInst \/ BitAndInstPce \/ BitAndPceInst
    \/ SubInstPce \/ DivInstPce

SpecMixed == Init /\ [][NextMixed]_vars

\* ------------------------------------------------------------------------
\* State machine: a run is handed one constraint expression and lowers it
\* ------------------------------------------------------------------------
RECURSIVE ExprsOfSize(_)
RECURSIVE ListsOfSize(_)

\* the constraint expressions of exactly n nodes
ExprsOfSize(n) ==
    IF n = 0 THEN {}
    ELSE (IF n = 1 THEN {Reference(path) : path \in Paths} ELSE {})
         \cup {Composite(tag, exprs) :
                   tag \in {"OneOf", "And", "AndOr"}, exprs \in ListsOfSize(n - 1)}

\* the lists of constraint expressions of exactly m nodes in total
ListsOfSize(m) ==
    IF m = 0 THEN {<<>>}
    ELSE UNION {{<<e>> \o rest : e \in ExprsOfSize(k), rest \in ListsOfSize(m - k)} :
                    k \in 1..m}

\* the caller holds a ConstraintExpr of at most MaxExprNodes nodes: a
\* reference, or a composite of a list of fewer nodes
GivenConstraint ==
    /\ expr = <<>>
    /\ \/ \E path \in Paths : expr' = <<Reference(path)>>
       \/ \E m \in 0..(MaxExprNodes - 1) :
              \E exprs \in ListsOfSize(m) :
                  \E tag \in {"OneOf", "And", "AndOr"} :
                      expr' = <<Composite(tag, exprs)>>
    /\ op' = "given"
    /\ UNCHANGED <<diag, ires, outcome, ninst, A, B, C>>
    /\ UNCHANGED pceVars
    /\ UNCHANGED scopeVars
    /\ UNCHANGED parserVars

\* Instantiables::from_constraint_expr(&ns, &expr)
LowerConstraint ==
    /\ expr # <<>>
    /\ LET r == FromConstraintExpr(Namespace, expr[1])
       IN  /\ op' = "lower"
           /\ outcome' = r.kind
           /\ ires' = r.val
           /\ diag' = r.errs
    /\ UNCHANGED <<expr, ninst, A, B, C>>
    /\ UNCHANGED pceVars
    /\ UNCHANGED scopeVars
    /\ UNCHANGED parserVars

NextLower == GivenConstraint \/ LowerConstraint

SpecLower == Init /\ [][NextLower]_vars

\* ------------------------------------------------------------------------
\* State machine: a run constructs up to three scopes and applies pushed,
\* popped and the comparison to them
\* ------------------------------------------------------------------------
\* two of the variants of ScopeType and two names
ScopeTypes == {"Schema", "Entity"}
ScopeNames == {"schema1", "schema2"}
ScopeItems == [ty : ScopeTypes, name : ScopeNames]

\* Scope::root().pushed(ty1, name1). ... .pushed(tyn, namen)
RECURSIVE ScopeOf(_)
ScopeOf(items) ==
    IF items = <<>> THEN ScopeRoot
    ELSE ScopePushed(ScopeOf(SubSeq(items, 1, Len(items) - 1)),
                     items[Len(items)].ty, items[Len(items)].name)

\* what the scopes of this run may still grow by
ScopeRoom == MaxScopeSize - Len(s1) - Len(s2) - Len(s3)

\* an operation on scopes that returned the scope r (or None) and the
\* ordering c
ScopeReturned(name, r, c) ==
    /\ op' = name
    /\ sres' = r
    /\ cmpres' = c

\* let s1 = Scope::root().pushed(..)...; then s2, then s3
NewScope ==
    /\ nscope < 3
    /\ \E items \in SeqsUpTo(ScopeItems, ScopeRoom) :
           /\ nscope' = nscope + 1
           /\ s1' = IF nscope = 0 THEN ScopeOf(items) ELSE s1
           /\ s2' = IF nscope = 1 THEN ScopeOf(items) ELSE s2
           /\ s3' = IF nscope = 2 THEN ScopeOf(items) ELSE s3
           /\ ScopeReturned("scope_new", <<ScopeOf(items)>>, "none")
    /\ UNCHANGED instVars
    /\ UNCHANGED pceVars
    /\ UNCHANGED lowerVars
    /\ UNCHANGED parserVars

\* s1.pushed(ty, name)
PushedScope ==
    /\ nscope >= 1
    /\ \E item \in ScopeItems :
           ScopeReturned("pushed", <<ScopePushed(s1, item.ty, item.name)>>, "none")
    /\ UNCHANGED <<nscope, s1, s2, s3>>
    /\ UNCHANGED instVars
    /\ UNCHANGED pceVars
    /\ UNCHANGED lowerVars
    /\ UNCHANGED parserVars

\* s1.popped()
PoppedScope ==
    /\ nscope >= 1
    /\ ScopeReturned("popped", ScopePopped(s1), "none")
    /\ UNCHANGED <<nscope, s1, s2, s3>>
    /\ UNCHANGED instVars
    /\ UNCHANGED pceVars
    /\ UNCHANGED lowerVars
    /\ UNCHANGED parserVars

\* s1.partial_cmp(&s2)
CmpScope ==
    /\ nscope >= 2
    /\ ScopeReturned("scope_cmp", <<>>, PartialCmp(s1, s2))
    /\ UNCHANGED <<nscope, s1, s2, s3>>
    /\ UNCHANGED instVars
    /\ UNCHANGED pceVars
    /\ UNCHANGED lowerVars
    /\ UNCHANGED parserVars

NextScope == NewScope \/ PushedScope \/ PoppedScope \/ CmpScope

SpecScope == Init /\ [][NextScope]_vars

\* ------------------------------------------------------------------------
\* State machine: a run is handed one input and parses an identifier from it
\* ------------------------------------------------------------------------
\* the characters of the inputs: lower-case letters, upper-case letters,
\* digits, the underscore and two characters of no class
InputChars == {"a", "h", "z", "A", "Z", "0", "9", "_", " ", ";"}

\* the caller holds an input
GivenText ==
    /\ text = <<>>
    /\ \E str \in SeqsUpTo(InputChars, MaxInputLen) :
           /\ op' = "text"
           /\ text' = <<str>>
    /\ UNCHANGED parsed
    /\ UNCHANGED instVars
    /\ UNCHANGED pceVars
    /\ UNCHANGED lowerVars
    /\ UNCHANGED scopeVars

\* simple_id(input)
ParseSimpleId ==
    /\ text # <<>>
    /\ op' = "simple_id"
    /\ parsed' = simple_id(text[1])
    /\ UNCHANGED text
    /\ UNCHANGED instVars
    /\ UNCHANGED pceVars
    /\ UNCHANGED lowerVars
    /\ UNCHANGED scopeVars

NextParser == GivenText \/ ParseSimpleId

SpecParser == Init /\ [][NextParser]_vars

\* ------------------------------------------------------------------------
\* Properties of PartialComplexEntity (checked under SpecPCE)
\* ------------------------------------------------------------------------
StrictlyIncreasing(s) == \A i \in 1..(Len(s) - 1) : s[i] < s[i + 1]

PceOf(s) == [indices |-> s]

\* C1: PartialComplexEntity::new(indices) returns indices that are strictly
\* increasing and are exactly the distinct values of its input.
C1_NewNormalizes ==
    (op = "pce_new") =>
        /\ StrictlyIncreasing(pres.indices)
        /\ Range(pres.indices) = Range(input)

\* C2: x & y has strictly increasing indices that are exactly the union of
\* the indices of x and the indices of y, however x and y were constructed.
C2_BitAndIsUnion ==
    (op = "pce_bitand") =>
        /\ StrictlyIncreasing(pres.indices)
        /\ Range(pres.indices) = Range(x.indices) \cup Range(y.indices)

\* an unsorted operand that shares an index with the other one
C2_Witness ==
    /\ op = "pce_bitand"
    /\ ~IsAscending(x.indices)
    /\ Range(x.indices) \cap Range(y.indices) # {}
    /\ pres.indices = <<1, 2, 3>>

\* C3: a & a = a for every a returned by PartialComplexEntity::new.
C3_BitAndIdempotent ==
    (op = "pce_bitand" /\ x = y) => (pres = x)

\* C4: the PCE & is commutative and associative, and [1] & [2] & [3] is
\* [1,2,3] in whatever order the three operands are combined.
C4_BitAndCommAssoc ==
    /\ (npce >= 2) => (PceBitAnd(x, y) = PceBitAnd(y, x))
    /\ (op = "pce_bitand") => (pres = PceBitAnd(y, x))
    /\ (npce = 3) =>
        /\ PceBitAnd(PceBitAnd(x, y), z) = PceBitAnd(x, PceBitAnd(y, z))
        /\ (op = "pce_bitand") =>
               (PceBitAnd(pres, z) = PceBitAnd(x, PceBitAnd(y, z)))
        /\ ({x, y, z} = {PceOf(<<1>>), PceOf(<<2>>), PceOf(<<3>>)}) =>
            ( /\ PceBitAnd(PceBitAnd(x, y), z) = PceOf(<<1, 2, 3>>)
              /\ PceBitAnd(x, PceBitAnd(y, z)) = PceOf(<<1, 2, 3>>)
              /\ PceBitAnd(PceBitAnd(x, z), y) = PceOf(<<1, 2, 3>>) )

\* [3] & [1] has been computed and [2] is the third operand
C4_Witness ==
    /\ op = "pce_bitand"
    /\ npce = 3
    /\ x = PceOf(<<3>>) /\ y = PceOf(<<1>>) /\ z = PceOf(<<2>>)
    /\ pres = PceOf(<<1, 3>>)

\* s precedes t in the dictionary order of two slices of the same length
LexLess(s, t) ==
    \E k \in 1..Len(s) : s[k] < t[k] /\ \A j \in 1..(k - 1) : s[j] = t[j]

\* C5: cmp orders PCEs by number of indices first and by content only for
\* equal lengths; it is Equal exactly for identical index lists, and it is
\* antisymmetric and transitive.
C5_CmpTotalOrder ==
    /\ (op = "pce_cmp") =>
        /\ (Len(x.indices) < Len(y.indices)) => (ord = "Less")
        /\ (Len(x.indices) > Len(y.indices)) => (ord = "Greater")
        /\ (Len(x.indices) = Len(y.indices)) =>
            ( /\ (ord = "Less") <=> LexLess(x.indices, y.indices)
              /\ (ord = "Greater") <=> LexLess(y.indices, x.indices) )
        /\ (ord = "Equal") <=> (x = y)
        /\ (ord = "Less") <=> (PceCmp(y, x) = "Greater")
        /\ (ord = "Greater") <=> (PceCmp(y, x) = "Less")
        /\ ord \in {"Less", "Equal", "Greater"}
    /\ (npce = 3) =>
        ( (PceCmp(x, y) = "Less" /\ PceCmp(y, z) = "Less")
          => (PceCmp(x, z) = "Less") )

\* a shorter PCE with the larger content has been compared with a longer one
C5_Witness ==
    /\ op = "pce_cmp"
    /\ Len(x.indices) < Len(y.indices)
    /\ x.indices # <<>>
    /\ x.indices[1] > y.indices[1]
    /\ ord = "Less"

\* ------------------------------------------------------------------------
\* Properties of Instantiables (checked under SpecInst)
\* ------------------------------------------------------------------------
\* parts strictly increasing in the PCE order: sorted, no duplicates
CanonicalParts(ps) ==
    \A i \in 1..(Len(ps) - 1) : PceCmp(ps[i], ps[i + 1]) = "Less"

\* canonical parts made of canonical PCEs
CanonicalInst(I) ==
    /\ CanonicalParts(I.parts)
    /\ \A p \in Range(I.parts) : StrictlyIncreasing(p.indices)

\* C6: Instantiables::new on any list of PCEs, and single(i), return parts
\* that are strictly increasing in the PCE order.
C6_ConstructorsCanonical ==
    (op \in {"inst_new", "inst_single"}) => CanonicalParts(ires.parts)

\* the operands the last operation was applied to
LastOperands ==
    IF op \in {"inst_add", "inst_bitand", "inst_sub", "inst_div"}
    THEN <<A, B>>
    ELSE Operands

\* C7: applied to canonical operands, each of +, &, -, /, oneof, and, andor
\* returns canonical parts made of canonical PCEs.
C7_OperationsPreserveCanonical ==
    ( /\ op \in {"inst_add", "inst_bitand", "inst_sub", "inst_div",
                 "oneof", "and", "andor"}
      /\ outcome = "ok"
      /\ \A i \in 1..Len(LastOperands) : CanonicalInst(LastOperands[i]) )
    => CanonicalInst(ires)

\* A & B on canonical operands, where the products come out of order
C7_Witness ==
    /\ op = "inst_bitand"
    /\ CanonicalInst(A) /\ CanonicalInst(B)
    /\ Len(A.parts) = 2
    /\ ~CanonicalParts(Pairwise(A.parts, B.parts))
    /\ Len(ires.parts) = 2

\* C8: the Instantiables + is commutative and associative, and A + B holds
\* exactly the PCEs that occur in A or in B.
C8_AddCommAssoc ==
    (op = "inst_add") =>
        /\ InstAdd(A, B) = InstAdd(B, A)
        /\ ires = InstAdd(B, A)
        /\ Range(ires.parts) = Range(A.parts) \cup Range(B.parts)
        /\ (ninst = 3) =>
            /\ InstAdd(InstAdd(A, B), C) = InstAdd(A, InstAdd(B, C))
            /\ InstAdd(ires, C) = InstAdd(A, InstAdd(B, C))

\* three non-empty operands, the first one not below the second
C8_Witness ==
    /\ op = "inst_add"
    /\ ninst = 3
    /\ A.parts # <<>> /\ B.parts # <<>> /\ C.parts # <<>>
    /\ PceCmp(A.parts[1], B.parts[1]) = "Greater"
    /\ Len(InstAdd(ires, C).parts) = 3

\* C9: A + A = A for every A returned by new, single, oneof, and, andor.
C9_AddIdempotent ==
    (op = "inst_add" /\ A = B) => (ires = A)

\* C10: the Instantiables & is commutative and associative, and A & B is
\* the canonical list of the set { p & q : p in A, q in B }.
C10_BitAndCommAssoc ==
    (op = "inst_bitand") =>
        /\ InstBitAnd(A, B) = InstBitAnd(B, A)
        /\ ires = InstBitAnd(B, A)
        /\ Range(ires.parts) =
               {PceBitAnd(p, q) : p \in Range(A.parts), q \in Range(B.parts)}
        /\ CanonicalParts(ires.parts)
        /\ (ninst = 3) =>
            /\ InstBitAnd(InstBitAnd(A, B), C) = InstBitAnd(A, InstBitAnd(B, C))
            /\ InstBitAnd(ires, C) = InstBitAnd(A, InstBitAnd(B, C))

\* three non-empty operands with different indices
C10_Witness ==
    /\ op = "inst_bitand"
    /\ ninst = 3
    /\ A.parts # <<>> /\ B.parts # <<>> /\ C.parts # <<>>
    /\ Len(A.parts) + Len(B.parts) + Len(C.parts) >= 4
    /\ \E p \in Range(InstBitAnd(ires, C).parts) : Len(p.indices) >= 2

\* C11: the Instantiables & distributes over +: for the three operands in
\* any arrangement, P & (Q + R) = (P & Q) + (P & R), also when Q + R or
\* P & Q is the value the operator has just returned.
C11_Distributive ==
    (ninst = 3 /\ op \in {"inst_add", "inst_bitand"}) =>
        /\ InstBitAnd(A, InstAdd(B, C)) =
               InstAdd(InstBitAnd(A, B), InstBitAnd(A, C))
        /\ InstBitAnd(B, InstAdd(A, C)) =
               InstAdd(InstBitAnd(B, A), InstBitAnd(B, C))
        /\ InstBitAnd(C, InstAdd(A, B)) =
               InstAdd(InstBitAnd(C, A), InstBitAnd(C, B))
        /\ (op = "inst_add") =>
               (InstBitAnd(C, ires) =
                    InstAdd(InstBitAnd(C, A), InstBitAnd(C, B)))
        /\ (op = "inst_bitand") =>
               (InstAdd(ires, InstBitAnd(A, C)) =
                    InstBitAnd(A, InstAdd(B, C)))

\* A + B of two different parts has been computed and C, with an index of
\* its own, multiplies it
C11_Witness ==
    /\ op = "inst_add"
    /\ ninst = 3
    /\ Len(ires.parts) = 2
    /\ A.parts # <<>> /\ B.parts # <<>> /\ C.parts # <<>>
    /\ PceCmp(InstBitAnd(C, A).parts[1], InstBitAnd(C, B).parts[1]) = "Greater"
    /\ Len(InstBitAnd(C, ires).parts) = 2

\* C12: A - B is the parts of A equal to no part of B, in the order they
\* have in A; A - A is empty and A - (empty) is A.
C12_SubFilters ==
    (op = "inst_sub") =>
        /\ ires.parts = SelectSeq(A.parts, LAMBDA p : p \notin Range(B.parts))
        /\ (A = B) => (ires = InstDefault)
        /\ (B = InstDefault) => (ires = A)

\* a part was removed from an A that is not sorted, and the rest kept its
\* order
C12_Witness ==
    /\ op = "inst_sub"
    /\ Len(ires.parts) < Len(A.parts)
    /\ Len(ires.parts) = 2
    /\ PceCmp(ires.parts[1], ires.parts[2]) = "Greater"

\* C13: A / B is the parts p of A for which some part q of B has its indices
\* among the indices of p, in the order they have in A, for every A and B
\* built by the public constructors.
C13_DivCovers ==
    (op = "inst_div") =>
        (ires.parts = SelectSeq(A.parts, LAMBDA p :
            \E q \in Range(B.parts) : Range(q.indices) \subseteq Range(p.indices)))

\* the lists that hold the elements of s in some order
OrdersOf(s) ==
    {[i \in 1..Len(s) |-> s[f[i]]] :
        f \in {g \in [1..Len(s) -> 1..Len(s)] : Range(g) = 1..Len(s)}}

\* the PCEs of all the operands in the list
AllParts(operands) == UNION {Range(operands[i].parts) : i \in 1..Len(operands)}

\* C14: oneof([A1..An]) is A1 + ... + An, the canonical list of the PCEs of
\* all operands, whatever the order of the operands; oneof of single(1),
\* single(2), single(3) is [{1},{2},{3}].
C14_OneOfIsSum ==
    /\ (op = "oneof") =>
        /\ outcome = "ok"
        /\ CanonicalParts(ires.parts)
        /\ Range(ires.parts) = AllParts(Operands)
        /\ (ninst = 2) => (ires = InstAdd(A, B))
        /\ (ninst = 3) => (ires = InstAdd(InstAdd(A, B), C))
        /\ \A perm \in OrdersOf(Operands) : OneOf(perm) = ires
        /\ \A perm \in OrdersOf(<<InstSingle(1), InstSingle(2), InstSingle(3)>>) :
               OneOf(perm) = [parts |-> <<PceOf(<<1>>), PceOf(<<2>>), PceOf(<<3>>)>>]

\* oneof of three operands given out of order
C14_Witness ==
    /\ op = "oneof"
    /\ ninst = 3
    /\ A.parts # <<>> /\ B.parts # <<>> /\ C.parts # <<>>
    /\ PceCmp(A.parts[1], B.parts[1]) = "Greater"
    /\ Len(ires.parts) = 3

\* the operand is single(i) for some index i
IsSingleton(I) == Len(I.parts) = 1 /\ Len(I.parts[1].indices) = 1

\* the indices that occur in the operands of the list
AllIndices(operands) ==
    UNION {Range(p.indices) : p \in AllParts(operands)}

\* C15: and([A1..An]), n >= 2, is the left fold A1 & A2 & ... & An whatever
\* the order of the operands; for singletons it is the one PCE that holds
\* all operand indices; and of single(1), single(2), single(3) is [{1,2,3}].
C15_AndIsProduct ==
    (op = "and") =>
        /\ (outcome = "ok") =>
            /\ ninst >= 2
            /\ (ninst = 2) => (ires = InstBitAnd(A, B))
            /\ (ninst = 3) => (ires = InstBitAnd(InstBitAnd(A, B), C))
            /\ \A perm \in OrdersOf(Operands) : And(perm) = ires
            /\ (\A i \in 1..ninst : IsSingleton(Operands[i])) =>
                ( /\ Len(ires.parts) = 1
                  /\ StrictlyIncreasing(ires.parts[1].indices)
                  /\ Range(ires.parts[1].indices) = AllIndices(Operands) )
        /\ \A perm \in OrdersOf(<<InstSingle(1), InstSingle(2), InstSingle(3)>>) :
               And(perm) = [parts |-> <<PceOf(<<1, 2, 3>>)>>]

\* and of three singletons, the larger index first
C15_Witness ==
    /\ op = "and"
    /\ outcome = "ok"
    /\ ninst = 3
    /\ A = InstSingle(2) /\ B = InstSingle(1) /\ IsSingleton(C)
    /\ ires = [parts |-> <<PceOf(<<1, 2>>)>>]

\* the & of the factors whose position is in S, lowest position first
RECURSIVE SubsetProduct(_, _)
SubsetProduct(factors, S) ==
    LET k == CHOOSE i \in S : \A j \in S : j <= i
    IN  IF S = {k} THEN factors[k]
        ELSE InstBitAnd(SubsetProduct(factors, S \ {k}), factors[k])

NonEmptySubsets(n) == (SUBSET (1..n)) \ {{}}

\* C16: andor([A1..An]) is the + over every non-empty subset S of 1..n of
\* the & of the Ai with i in S; for n distinct singletons it has 2^n - 1
\* parts; andor of single(1), single(2) is [{1},{2},{1,2}].
C16_AndOrIsSubsetSum ==
    (op = "andor") =>
        /\ (outcome = "ok") =>
            /\ ninst >= 1
            /\ CanonicalParts(ires.parts)
            /\ Range(ires.parts) =
                   UNION {Range(SubsetProduct(Operands, S).parts) :
                          S \in NonEmptySubsets(ninst)}
            /\ ( /\ \A i \in 1..ninst : IsSingleton(Operands[i])
                 /\ Cardinality(AllIndices(Operands)) = ninst )
               => (Len(ires.parts) = 2 ^ ninst - 1)
        /\ AndOr(<<InstSingle(1), InstSingle(2)>>) =
               [parts |-> <<PceOf(<<1>>), PceOf(<<2>>), PceOf(<<1, 2>>)>>]
        /\ Len(AndOr(<<InstSingle(1), InstSingle(2), InstSingle(3)>>).parts) = 7

\* andor of two distinct singletons
C16_Witness ==
    /\ op = "andor"
    /\ outcome = "ok"
    /\ ninst = 2
    /\ A = InstSingle(2) /\ B = InstSingle(1)
    /\ ires = [parts |-> <<PceOf(<<1>>), PceOf(<<2>>), PceOf(<<1, 2>>)>>]

\* C17: oneof, and, andor of an empty operand list each end in an error and
\* return no Instantiables.
C17_EmptyIsError ==
    (op \in {"oneof", "and", "andor"} /\ ninst = 0) => (outcome = "panic")

\* C18: and called with exactly one term ends in the error outcome and does
\* not return the term; lowering And with one child does not return Ok either:
\* it panics when the child resolves and reports the child's error otherwise.
C18_AndSingleIsError ==
    (op = "and" /\ ninst = 1) =>
        /\ outcome = "panic"
        /\ \A path \in Paths :
               FromConstraintExpr(Namespace,
                                  Composite("And", <<Reference(path)>>)).kind
                   = IF NsGet(Namespace, path).ok THEN "panic" ELSE "err"

C18_Witness ==
    /\ op = "and" /\ ninst = 1
    /\ A.parts # <<>>
    /\ outcome = "panic"

\* C22: single(i) & S is the canonical list of the PCEs {i} + q, one for
\* every alternative q of S, and each of them holds i; for the entities
\* A, B, C (indices 0, 1, 2) with A SUPERTYPE OF (ONEOF(B, C)),
\* I_A = single(A) & oneof(single(B), single(C)) = [{A,B},{A,C}],
\* I_B = single(B) & single(A) = [{A,B}] and I_C = [{A,C}].
C22_EntityCompilation ==
    (op = "inst_bitand" /\ IsSingleton(A)) =>
        LET i == A.parts[1].indices[1]
            abc == <<1, 2, 3>>
            S == FromConstraintExpr(abc,
                     Composite("OneOf", <<Reference(2), Reference(3)>>))
        IN  /\ CanonicalInst(ires)
            /\ \A p \in Range(ires.parts) :
                   /\ i \in Range(p.indices)
                   /\ \E q \in Range(B.parts) :
                          Range(p.indices) = {i} \cup Range(q.indices)
            /\ \A q \in Range(B.parts) :
                   \E p \in Range(ires.parts) :
                       Range(p.indices) = {i} \cup Range(q.indices)
            /\ S = LowerOk(OneOf(<<InstSingle(1), InstSingle(2)>>))
            /\ InstBitAnd(InstSingle(0), S.val)
                   = [parts |-> <<PceOf(<<0, 1>>), PceOf(<<0, 2>>)>>]
            /\ InstBitAnd(InstSingle(1), InstSingle(0))
                   = [parts |-> <<PceOf(<<0, 1>>)>>]
            /\ InstBitAnd(InstSingle(2), InstSingle(0))
                   = [parts |-> <<PceOf(<<0, 2>>)>>]

\* single(i) & S for an S of two alternatives, one of which holds i already
C22_Witness ==
    /\ op = "inst_bitand"
    /\ IsSingleton(A)
    /\ Len(B.parts) = 2
    /\ \E q \in Range(B.parts) : A.parts[1].indices[1] \in Range(q.indices)
    /\ Len(ires.parts) = 2

\* C26: canonicalization applied to its own output changes nothing: new on
\* the indices of a PCE that new built gives that PCE, and collecting the
\* parts of what collect, + or & returned gives that value again.
C26_CanonicalizationIdempotent ==
    /\ (op = "inst_new") =>
           \A p \in Range(ires.parts) : PceNew(p.indices) = p
    /\ (op \in {"from_iter", "inst_add", "inst_bitand"}) =>
           /\ InstFromIter(ires.parts) = ires
           /\ CanonicalParts(ires.parts)

\* collect on a list that holds a PCE twice, apart from each other
C26_Witness ==
    /\ op = "from_iter"
    /\ Len(A.parts) = 3
    /\ A.parts[1] = A.parts[3] /\ A.parts[1] # A.parts[2]
    /\ Len(ires.parts) = 2

\* the operands that have parts
RECURSIVE NonEmptyOperands(_)
NonEmptyOperands(operands) ==
    IF operands = <<>> THEN <<>>
    ELSE (IF operands[1] = InstDefault THEN <<>> ELSE <<operands[1]>>)
         \o NonEmptyOperands(Tail(operands))

\* C30: the empty Instantiables is the identity of + on canonical operands
\* and the annihilator of &; and with an empty operand is empty, andor is
\* the andor of the operands that have parts, and A / empty is empty.
C30_EmptyIdentityAnnihilator ==
    /\ (op = "inst_add") =>
           /\ (B = InstDefault /\ CanonicalParts(A.parts)) => (ires = A)
           /\ (A = InstDefault /\ CanonicalParts(B.parts)) => (ires = B)
    /\ (op = "inst_bitand" /\ (A = InstDefault \/ B = InstDefault)) =>
           (ires = InstDefault)
    /\ (op = "inst_div" /\ B = InstDefault) => (ires = InstDefault)
    /\ (op = "and" /\ outcome = "ok"
            /\ \E i \in 1..ninst : Operands[i] = InstDefault) =>
           (ires = InstDefault)
    /\ (op = "andor" /\ outcome = "ok"
            /\ \E i \in 1..ninst : Operands[i] = InstDefault) =>
           (ires = IF NonEmptyOperands(Operands) = <<>> THEN InstDefault
                   ELSE AndOr(NonEmptyOperands(Operands)))

\* A & empty for an A of two parts
C30_Witness ==
    /\ op = "inst_bitand"
    /\ Len(A.parts) = 2
    /\ B = InstDefault
    /\ ires = InstDefault

\* ------------------------------------------------------------------------
\* Properties of the operators on an Instantiables and a PCE (checked under
\* SpecMixed)
\* ------------------------------------------------------------------------
\* C19: the operators on a PCE x and an Instantiables A give what the
\* operators on Instantiables give for the one-part list [x] and A, whichever
\* side the PCE is on: x + A = A + x = [x] + A and x & A = A & x = [x] & A;
\* with x = {1} and A = [{2},{3}], x + A = [{1},{2},{3}] and
\* x & A = [{1,2},{1,3}].
C19_MixedAgreesWithLifting ==
    /\ (op \in {"inst_add_pce", "pce_add_inst"})
           => (ires = InstAdd(InstNew(<<x>>), A))
    /\ (op \in {"inst_bitand_pce", "pce_bitand_inst"})
           => (ires = InstBitAnd(InstNew(<<x>>), A))
    /\ (op \in {"pce_add_inst", "pce_bitand_inst"})
           => LET one == PceNew(<<1>>)
                  twoThree == InstNew(<<PceNew(<<2>>), PceNew(<<3>>)>>)
              IN  /\ PceAddInst(one, twoThree)
                         = [parts |-> <<PceOf(<<1>>), PceOf(<<2>>), PceOf(<<3>>)>>]
                  /\ PceBitAndInst(one, twoThree)
                         = [parts |-> <<PceOf(<<1, 2>>), PceOf(<<1, 3>>)>>]

\* the PCE has to move in front of a part of A, and joining it changes a part
C19_Witness ==
    /\ op \in {"pce_add_inst", "pce_bitand_inst"}
    /\ Len(A.parts) >= 2
    /\ PceCmp(x, A.parts[1]) = "Less"
    /\ x.indices # <<>>
    /\ ires.parts # A.parts

\* C29: A - x is A - [x] and A / x is A / [x], the searches of the build
\* being the same on both sides; with
\* X = [{1},{1,2},{1,3},{1,2,4},{2,3},{4}], X / {1} = [{1},{1,2},{1,3},{1,2,4}].
C29_PceVariantsAgree ==
    /\ (op = "inst_sub_pce") => (ires = InstSub(A, InstNew(<<x>>)))
    /\ (op = "inst_div_pce") =>
           /\ \E hits \in SUBSET UnspecifiedSearches(A) :
                  /\ ires = InstDivPce(A, x, hits)
                  /\ ires = InstDiv(A, InstNew(<<x>>), hits)
           /\ \A hits \in SUBSET UnspecifiedSearches(A) :
                  InstDivPce(A, x, hits) = InstDiv(A, InstNew(<<x>>), hits)
           /\ LET X == InstNew(<<PceNew(<<1>>), PceNew(<<1, 2>>), PceNew(<<1, 3>>),
                                 PceNew(<<1, 2, 4>>), PceNew(<<2, 3>>),
                                 PceNew(<<4>>)>>)
              IN  InstDivPce(X, PceNew(<<1>>), {})
                      = [parts |-> <<PceOf(<<1>>), PceOf(<<1, 2>>),
                                     PceOf(<<1, 3>>), PceOf(<<1, 2, 4>>)>>]

\* A / x keeps one of the two parts of A
C29_Witness ==
    /\ op = "inst_div_pce"
    /\ Len(A.parts) = 2
    /\ x.indices # <<>>
    /\ Len(ires.parts) = 1

\* ------------------------------------------------------------------------
\* Properties of the lowering (checked under SpecLower)
\* ------------------------------------------------------------------------
RECURSIVE AllResolve(_)
RECURSIVE Evaluate(_)
RECURSIVE EvaluateAll(_)
RECURSIVE ShortCombinator(_)
RECURSIVE EmptyOneOf(_)

\* the recursive evaluations of the expressions of a list, in their order
EvaluateAll(exprs) ==
    IF exprs = <<>> THEN <<>>
    ELSE <<Evaluate(exprs[1])>> \o EvaluateAll(Tail(exprs))

\* every reference of e is a declared path
AllResolve(e) ==
    IF e.tag = "Reference" THEN NsGet(Namespace, e.path).ok
    ELSE \A i \in 1..Len(e.exprs) : AllResolve(e.exprs[i])

\* the recursive evaluation of e: a reference is the single of its index, a
\* composite is its combinator on the evaluated children in their order
Evaluate(e) ==
    LET vals == EvaluateAll(e.exprs)
    IN  CASE e.tag = "Reference" -> InstSingle(NsGet(Namespace, e.path).index)
          [] e.tag = "OneOf" -> OneOf(vals)
          [] e.tag = "And" -> And(vals)
          [] e.tag = "AndOr" -> AndOr(vals)

\* e has an And of fewer than two children or an AndOr without children
ShortCombinator(e) ==
    \/ e.tag = "And" /\ Len(e.exprs) < 2
    \/ e.tag = "AndOr" /\ e.exprs = <<>>
    \/ \E i \in 1..Len(e.exprs) : ShortCombinator(e.exprs[i])

\* e has a OneOf without children
EmptyOneOf(e) ==
    \/ e.tag = "OneOf" /\ e.exprs = <<>>
    \/ \E i \in 1..Len(e.exprs) : EmptyOneOf(e.exprs[i])

\* C20 as stated: lowering an expression whose references all resolve
\* returns Ok, and the value is the recursive evaluation of the expression.
C20_LoweringStructural ==
    (op = "lower" /\ AllResolve(expr[1]))
        => (outcome = "ok" /\ ires = Evaluate(expr[1]))

\* C20 amended: when every reference resolves, lowering an expression whose
\* And nodes have at least two children and whose OneOf and AndOr nodes have
\* at least one returns Ok with the recursive evaluation of the expression;
\* an And of fewer than two children or an AndOr without children makes the
\* lowering end in the error outcome.
C20_LoweringStructuralWellFormed ==
    (op = "lower" /\ AllResolve(expr[1]))
        => /\ (~ShortCombinator(expr[1]) /\ ~EmptyOneOf(expr[1]))
                  => (outcome = "ok" /\ ires = Evaluate(expr[1]))
           /\ ShortCombinator(expr[1]) => (outcome = "panic")

C20_Witness ==
    /\ op = "lower"
    /\ expr # <<>>
    /\ expr[1].tag = "And" /\ Len(expr[1].exprs) = 2
    /\ expr[1].exprs[1].tag = "OneOf"
    /\ AllResolve(expr[1])
    /\ outcome = "ok"
    /\ \E i \in 1..Len(ires.parts) : Len(ires.parts[i].indices) = 2

RECURSIVE FailingPaths(_)

\* the paths of the references of e that the namespace does not know
FailingPaths(e) ==
    IF e.tag = "Reference"
    THEN (IF NsGet(Namespace, e.path).ok THEN {} ELSE {e.path})
    ELSE UNION {FailingPaths(e.exprs[i]) : i \in 1..Len(e.exprs)}

\* C21: lowering an expression with several references that do not resolve
\* returns no value and reports every path that fails to resolve, not only
\* the first one (stated for the expressions none of whose combinators
\* panics, so that the lowering runs to its end).
C21_ReportsEveryFailure ==
    (/\ op = "lower"
     /\ Cardinality(FailingPaths(expr[1])) >= 2
     /\ ~ShortCombinator(expr[1]))
        => /\ outcome = "err"
           /\ Range(diag) = FailingPaths(expr[1])

\* ------------------------------------------------------------------------
\* Properties of Scope (checked under SpecScope)
\* ------------------------------------------------------------------------
\* the items of a are the first items of b
IsPrefix(a, b) == Len(a) <= Len(b) /\ SubSeq(b, 1, Len(a)) = a

\* the scopes constructed so far
Scopes == SubSeq(<<s1, s2, s3>>, 1, nscope)

\* C23: a scope is greater than the scope pushed gives for it, root is
\* greater than every other scope, and two scopes neither of which is a
\* prefix of the other are incomparable: partial_cmp is None and both <= and
\* >= are false.
C23_EnclosingIsGreater ==
    /\ (op = "pushed") => ScopeGt(s1, sres[1])
    /\ \A i \in 1..nscope :
           (Scopes[i] # ScopeRoot) => ScopeGt(ScopeRoot, Scopes[i])
    /\ (op = "scope_cmp" /\ ~IsPrefix(s1, s2) /\ ~IsPrefix(s2, s1)) =>
           /\ cmpres = "None"
           /\ ~ScopeLe(s1, s2) /\ ~ScopeGe(s1, s2)

\* two scopes inside the same scope that part at their second item
C23_Witness ==
    /\ op = "scope_cmp"
    /\ Len(s1) = 2 /\ Len(s2) = 2
    /\ s1[1] = s2[1] /\ s1[2] # s2[2]
    /\ cmpres = "None"

\* C24 as stated: a <= b holds exactly when the items of a are a prefix of
\* the items of b.
C24_LeIffPrefix ==
    (op = "scope_cmp") => (ScopeLe(s1, s2) <=> IsPrefix(s1, s2))

\* C24 amended: a >= b holds exactly when the items of a are a prefix of
\* the items of b (b is inside a), and a <= b exactly when the items of b
\* are a prefix of the items of a.
C24_GeIffPrefix ==
    (op = "scope_cmp") =>
        /\ (cmpres \in {"Greater", "Equal"}) <=> IsPrefix(s1, s2)
        /\ ScopeGe(s1, s2) <=> IsPrefix(s1, s2)
        /\ ScopeLe(s1, s2) <=> IsPrefix(s2, s1)

\* a scope other than root compared with a scope inside it
C24_Witness ==
    /\ op = "scope_cmp"
    /\ s1 # ScopeRoot /\ s1 # s2
    /\ IsPrefix(s1, s2)
    /\ cmpres = "Greater"

\* C25: popped returns None exactly for root, else the scope without its
\* last item, which pushed with that item turns back into the receiver; and
\* the scope pushed returns pops back to the scope it was made from.
C25_PoppedUndoesPushed ==
    /\ (op = "popped") =>
           /\ (sres = <<>>) <=> (s1 = ScopeRoot)
           /\ (s1 # ScopeRoot) =>
                  /\ sres = <<SubSeq(s1, 1, Len(s1) - 1)>>
                  /\ ScopePushed(sres[1], s1[Len(s1)].ty, s1[Len(s1)].name) = s1
    /\ (op = "pushed") =>
           /\ ScopePopped(sres[1]) = <<s1>>
           /\ Len(sres[1]) = Len(s1) + 1

\* popped on a scope of two items
C25_Witness ==
    /\ op = "popped"
    /\ Len(s1) = 2
    /\ sres = << <<s1[1]>> >>

\* C28: partial_cmp is Equal exactly for equal scopes, Greater exactly when
\* the swapped comparison is Less (and Less when it is Greater), Some(_)
\* exactly when one scope is a prefix of the other, and >= is transitive.
C28_LawfulPartialOrder ==
    (op = "scope_cmp") =>
        /\ (cmpres = "Equal") <=> (s1 = s2)
        /\ (cmpres = "Greater") <=> (PartialCmp(s2, s1) = "Less")
        /\ (cmpres = "Less") <=> (PartialCmp(s2, s1) = "Greater")
        /\ (cmpres # "None") <=> (IsPrefix(s1, s2) \/ IsPrefix(s2, s1))
        /\ \A i, j, k \in 1..nscope :
               (ScopeGe(Scopes[i], Scopes[j]) /\ ScopeGe(Scopes[j], Scopes[k]))
                   => ScopeGe(Scopes[i], Scopes[k])

\* a chain of three different scopes
C28_Witness ==
    /\ op = "scope_cmp"
    /\ nscope = 3
    /\ s1 # s2 /\ s2 # s3
    /\ ScopeGe(s1, s2) /\ ScopeGe(s2, s3)
    /\ cmpres = "Greater"

\* ------------------------------------------------------------------------
\* Properties of simple_id (checked under SpecParser)
\* ------------------------------------------------------------------------
\* the first k characters of s are a letter followed by letters, digits and
\* underscores
IsIdPrefix(s, k) ==
    /\ 1 <= k /\ k <= Len(s)
    /\ s[1] \in LowerLetters
    /\ \A i \in 2..k : s[i] \in LowerLetters \cup Digits \cup {"_"}

\* C27: simple_id returns the longest prefix of the input that is a letter
\* followed by letters, digits and underscores as the id and what follows
\* it as the residual; it fails, with the input untouched, when there is no
\* such prefix: on the empty input and when the first character is an
\* upper-case letter, a digit or the underscore.
C27_SimpleIdLongestPrefix ==
    (op = "simple_id") =>
        LET s == text[1]
        IN  /\ parsed.ok <=> IsIdPrefix(s, 1)
            /\ parsed.ok =>
                   /\ s = parsed.id \o parsed.residual
                   /\ IsIdPrefix(s, Len(parsed.id))
                   /\ ~IsIdPrefix(s, Len(parsed.id) + 1)
            /\ ~parsed.ok => (parsed.id = <<>> /\ parsed.residual = s)
            /\ (s = <<>> \/ (s # <<>> /\ s[1] \in {"A", "Z", "0", "9", "_"}))
                   => ~parsed.ok

\* an id that ends in a digit, followed by a residual
C27_Witness ==
    /\ op = "simple_id"
    /\ parsed.ok
    /\ parsed.id = <<"h", "0">>
    /\ parsed.residual = <<";">>
    /\ text = << <<"h", "0", ";">> >>

====
